---- MODULE Spec2Model ----
(***************************************************************************)
(* Model of the two scripts of the repository:                             *)
(*   assets/tree-sitter/download_wasm.py  - the concurrent asset fetcher   *)
(*   assets/test.py                       - the white-to-transparent       *)
(*                                          converter                      *)
(***************************************************************************)
EXTENDS Integers, Sequences, FiniteSets, TLC

VARIABLES
    pc,         \* position of main(): "start", "submit", "shutdown", "done"
    submitted,  \* how many entries of the list executor.map has submitted
    queue,      \* the executor's work queue (filenames, FIFO)
    threads,    \* worker threads the executor has spawned
    idle,       \* the executor's idle semaphore
    st,         \* per filename: position of its download_file call
    outcome,    \* per filename: "none", "True" or "False" (value returned)
    error,      \* per filename: the exception caught at line 69 ("none" if none)
    disk,       \* per filename: content of OUTPUT_DIR/filename
    starts,     \* per filename: number of "Starting: ..." lines printed
    ret,        \* what main() handed to its caller: "running", "None", "raised"
    fate,       \* per filename: what the network and the disk do to it
    disk0,      \* the directory as main() found it (never written)
    ppc,        \* position of test.py's module body
    pil,        \* whether PIL can be imported
    defined,    \* whether the name white_to_transparent is bound
    fs,         \* the files the converter reads and writes, by path
    console,    \* what test.py has printed
    exc,        \* the exception the latest call or statement raised ("none")
    exit,       \* exit status of the script: "running", "0" or "1"
    calls,      \* number of calls of white_to_transparent so far
    call        \* the arguments of the latest call

fvars == <<pc, submitted, queue, threads, idle, st, outcome, error, disk, starts,
           ret, fate, disk0>>

cvars == <<ppc, pil, defined, fs, console, exc, exit, calls, call>>

vars == <<fvars, cvars>>

----------------------------------------------------------------------------
(* download_wasm.py *)

FILES ==
    << "tree-sitter-bash.wasm", "tree-sitter-c.wasm", "tree-sitter-c_sharp.wasm",
       "tree-sitter-cpp.wasm", "tree-sitter-css.wasm", "tree-sitter-dart.wasm",
       "tree-sitter-elisp.wasm", "tree-sitter-elixir.wasm", "tree-sitter-elm.wasm",
       "tree-sitter-embedded_template.wasm", "tree-sitter-go.wasm",
       "tree-sitter-html.wasm", "tree-sitter-java.wasm",
       "tree-sitter-javascript.wasm", "tree-sitter-json.wasm",
       "tree-sitter-kotlin.wasm", "tree-sitter-lua.wasm", "tree-sitter-objc.wasm",
       "tree-sitter-ocaml.wasm", "tree-sitter-php.wasm", "tree-sitter-python.wasm",
       "tree-sitter-ql.wasm", "tree-sitter-rescript.wasm", "tree-sitter-ruby.wasm",
       "tree-sitter-rust.wasm", "tree-sitter-scala.wasm",
       "tree-sitter-solidity.wasm", "tree-sitter-swift.wasm",
       "tree-sitter-systemrdl.wasm", "tree-sitter-tlaplus.wasm",
       "tree-sitter-toml.wasm", "tree-sitter-tsx.wasm",
       "tree-sitter-typescript.wasm", "tree-sitter-vue.wasm",
       "tree-sitter-yaml.wasm", "tree-sitter-zig.wasm" >>

\* ThreadPoolExecutor(max_workers=5)
MAX_WORKERS == 5

\* The runs are explored on the first NumFiles entries of FILES.
NumFiles == 6

Batch == SubSeq(FILES, 1, NumFiles)

Names == {Batch[i] : i \in 1..Len(Batch)}

Range(s) == {s[i] : i \in 1..Len(s)}

\* What the environment does to one download: the request fails or never
\* answers, the local file cannot be opened, the body cannot be read or never
\* arrives, the body cannot be written; or all of it works.
Fates == {"ok", "urlopen_error", "urlopen_hang", "open_error",
          "read_error", "read_hang", "write_error"}

\* Runs in which the downloads meet different fates: all the failures next to
\* successes, and hangs next to failures and successes.
FaultMix == <<"urlopen_error", "ok", "read_error", "write_error", "ok", "open_error">>

HangMix == <<"ok", "urlopen_hang", "read_error", "ok", "read_hang", "urlopen_error">>

IndexOf(f) == CHOOSE j \in 1..Len(Batch) : Batch[j] = f

\* The environments explored: every download works; all of them meet fate
\* k; the two mixes.
Environments ==
    {[f \in Names |-> k] : k \in Fates}
    \cup {[f \in Names |-> mix[((IndexOf(f) - 1) % Len(mix)) + 1]] :
            mix \in {FaultMix, HangMix}}

\* The directory before the run: an earlier run left every other file.
InitialDisks ==
    {[f \in Names |-> IF IndexOf(f) % 2 = 1 THEN "old" ELSE "absent"]}

InProgress == {f \in Names : st[f] \in {"started", "responded", "opened", "read", "hung"}}

FetchInit ==
    /\ pc = "start"
    /\ submitted = 0
    /\ queue = <<>>
    /\ threads = 0
    /\ idle = 0
    /\ st = [f \in Names |-> "pending"]
    /\ outcome = [f \in Names |-> "none"]
    /\ error = [f \in Names |-> "none"]
    /\ disk \in InitialDisks
    /\ starts = [f \in Names |-> 0]
    /\ ret = "running"
    /\ fate \in Environments
    /\ disk0 = disk

\* main, lines 75-79: OUTPUT_DIR is ".", which exists, so nothing is created.
main_start ==
    /\ pc = "start"
    /\ pc' = "submit"
    /\ UNCHANGED <<submitted, queue, threads, idle, st, outcome, error, disk,
                   starts, ret, fate, disk0>>
    /\ UNCHANGED cvars

\* Faulty variant: a worker is spawned for every submitted item, whatever max_workers.
AdjustThreadCountUnbounded ==
    IF idle > 0
    THEN /\ idle' = idle - 1
         /\ UNCHANGED threads
    ELSE /\ UNCHANGED idle
         /\ threads' = threads + 1

\* ThreadPoolExecutor._adjust_thread_count, called by submit: an idle worker
\* takes the item, else a worker is spawned while fewer than max_workers exist.
AdjustThreadCount ==
    IF idle > 0
    THEN /\ idle' = idle - 1
         /\ UNCHANGED threads
    ELSE /\ UNCHANGED idle
         /\ threads' = IF threads < MAX_WORKERS THEN threads + 1 ELSE threads

\* Faulty variant: the submission loop stops one entry short of the list.
main_submit_stops_early ==
    /\ pc = "submit"
    /\ submitted < Len(Batch)
    /\ submitted' = submitted + 1
    /\ queue' = Append(queue, Batch[submitted + 1])
    /\ AdjustThreadCount
    /\ pc' = IF submitted + 1 >= Len(Batch) - 1 THEN "shutdown" ELSE "submit"
    /\ UNCHANGED <<st, outcome, error, disk, starts, ret, fate, disk0>>
    /\ UNCHANGED cvars

\* main, line 83: executor.map submits download_file(f) for every entry, in
\* order; after the last one the with block is left (shutdown(wait=True)).
main_submit ==
    /\ pc = "submit"
    /\ submitted < Len(Batch)
    /\ submitted' = submitted + 1
    /\ queue' = Append(queue, Batch[submitted + 1])
    /\ AdjustThreadCount
    /\ pc' = IF submitted + 1 = Len(Batch) THEN "shutdown" ELSE "submit"
    /\ UNCHANGED <<st, outcome, error, disk, starts, ret, fate, disk0>>
    /\ UNCHANGED cvars

\* A free worker takes the head of the queue and enters download_file
\* (lines 49-55): the "Starting" line is printed.
download_file_start(f) ==
    /\ queue # <<>>
    /\ f = Head(queue)
    /\ Cardinality(InProgress) < threads
    /\ queue' = Tail(queue)
    /\ st' = [st EXCEPT ![f] = "started"]
    /\ starts' = [starts EXCEPT ![f] = @ + 1]
    /\ UNCHANGED <<pc, submitted, threads, idle, outcome, error, disk, ret, fate, disk0>>
    /\ UNCHANGED cvars

\* Faulty variant: a failed download is put back on the queue and tried again.
ExceptRetry(f, e) ==
    /\ st' = [st EXCEPT ![f] = "pending"]
    /\ outcome' = [outcome EXCEPT ![f] = "False"]
    /\ error' = [error EXCEPT ![f] = e]
    /\ idle' = idle + 1
    /\ queue' = Append(queue, f)

\* Faulty variant: a failed download cancels the work still waiting in the queue.
ExceptCancelsQueue(f, e) ==
    /\ st' = [st EXCEPT ![f] = "returned"]
    /\ outcome' = [outcome EXCEPT ![f] = "False"]
    /\ error' = [error EXCEPT ![f] = e]
    /\ idle' = idle + 1
    /\ queue' = <<>>

\* download_file, lines 69-71: the exception is caught, the failure printed
\* and False returned; the worker becomes idle.
Except(f, e) ==
    /\ st' = [st EXCEPT ![f] = "returned"]
    /\ outcome' = [outcome EXCEPT ![f] = "False"]
    /\ error' = [error EXCEPT ![f] = e]
    /\ idle' = idle + 1
    /\ UNCHANGED queue

\* download_file, lines 67-68: success printed, True returned.
Success(f) ==
    /\ st' = [st EXCEPT ![f] = "returned"]
    /\ outcome' = [outcome EXCEPT ![f] = "True"]
    /\ idle' = idle + 1
    /\ UNCHANGED <<queue, error>>

\* Faulty variant: the context managers are swapped, the local file is opened (and
\* truncated) before the request is made.
download_file_urlopen_after_open(f) ==
    /\ st[f] = "started"
    /\ disk' = [disk EXCEPT ![f] = "empty"]
    /\ CASE fate[f] = "urlopen_error" ->
              Except(f, "urlopen")
         [] fate[f] = "urlopen_hang" ->
              /\ st' = [st EXCEPT ![f] = "hung"]
              /\ UNCHANGED <<queue, idle, outcome, error>>
         [] OTHER ->
              /\ st' = [st EXCEPT ![f] = "responded"]
              /\ UNCHANGED <<queue, idle, outcome, error>>
    /\ UNCHANGED <<pc, submitted, threads, starts, ret, fate, disk0>>
    /\ UNCHANGED cvars

\* download_file, line 63, first context manager: urlopen(req) returns the
\* response, raises, or never answers (no timeout is given).
download_file_urlopen(f) ==
    /\ st[f] = "started"
    /\ CASE fate[f] = "urlopen_error" ->
              /\ Except(f, "urlopen")
              /\ UNCHANGED disk
         [] fate[f] = "urlopen_hang" ->
              /\ st' = [st EXCEPT ![f] = "hung"]
              /\ UNCHANGED <<queue, idle, outcome, error, disk>>
         [] OTHER ->
              /\ st' = [st EXCEPT ![f] = "responded"]
              /\ UNCHANGED <<queue, idle, outcome, error, disk>>
    /\ UNCHANGED <<pc, submitted, threads, starts, ret, fate, disk0>>
    /\ UNCHANGED cvars

\* download_file, line 63, second context manager: open(filepath, 'wb')
\* creates the file or truncates it, or raises and leaves it alone.
download_file_open(f) ==
    /\ st[f] = "responded"
    /\ IF fate[f] = "open_error"
       THEN /\ Except(f, "open")
            /\ UNCHANGED disk
       ELSE /\ st' = [st EXCEPT ![f] = "opened"]
            /\ disk' = [disk EXCEPT ![f] = "empty"]
            /\ UNCHANGED <<queue, idle, outcome, error>>
    /\ UNCHANGED <<pc, submitted, threads, starts, ret, fate, disk0>>
    /\ UNCHANGED cvars

\* download_file, line 64: response.read() returns the whole body, raises,
\* or never returns.
download_file_read(f) ==
    /\ st[f] = "opened"
    /\ CASE fate[f] = "read_error" ->
              /\ Except(f, "read")
         [] fate[f] = "read_hang" ->
              /\ st' = [st EXCEPT ![f] = "hung"]
              /\ UNCHANGED <<queue, idle, outcome, error>>
         [] OTHER ->
              /\ st' = [st EXCEPT ![f] = "read"]
              /\ UNCHANGED <<queue, idle, outcome, error>>
    /\ UNCHANGED <<pc, submitted, threads, starts, ret, fate, disk0, disk>>
    /\ UNCHANGED cvars

\* download_file, lines 65-68: out_file.write(data) and the close at the end
\* of the with block put the body on disk, or raise with part of it written.
download_file_write(f) ==
    /\ st[f] = "read"
    /\ IF fate[f] = "write_error"
       THEN /\ Except(f, "write")
            /\ disk' = [disk EXCEPT ![f] = "partial"]
       ELSE /\ Success(f)
            /\ disk' = [disk EXCEPT ![f] = "full"]
    /\ UNCHANGED <<pc, submitted, threads, starts, ret, fate, disk0>>
    /\ UNCHANGED cvars

\* Faulty variant: main consumes the results and fails when a download has failed.
main_finish_aggregate ==
    /\ pc = "shutdown"
    /\ queue = <<>>
    /\ InProgress = {}
    /\ pc' = "done"
    /\ ret' = IF \E f \in Names : outcome[f] = "False" THEN "raised" ELSE "None"
    /\ UNCHANGED <<submitted, queue, threads, idle, st, outcome, error, disk,
                   starts, fate, disk0>>
    /\ UNCHANGED cvars

\* main, lines 82-85: leaving the with block joins the workers, which end
\* once the queue is empty; then the final message is printed and main
\* returns None.
main_finish ==
    /\ pc = "shutdown"
    /\ queue = <<>>
    /\ InProgress = {}
    /\ pc' = "done"
    /\ ret' = "None"
    /\ UNCHANGED <<submitted, queue, threads, idle, st, outcome, error, disk,
                   starts, fate, disk0>>
    /\ UNCHANGED cvars

FetchNext ==
    \/ main_start
    \/ main_submit
    \/ \E f \in Names : download_file_start(f)
    \/ \E f \in Names : download_file_urlopen(f)
    \/ \E f \in Names : download_file_open(f)
    \/ \E f \in Names : download_file_read(f)
    \/ \E f \in Names : download_file_write(f)
    \/ main_finish

\* The fetcher before main() is called.
FetcherNotRun == FetchInit /\ fate = [f \in Names |-> "ok"]

----------------------------------------------------------------------------
(* test.py *)

\* Paths are sequences of characters.
SidebarIcon == <<"s", "i", "d", "e", "b", "a", "r", "-", "i", "c", "o", "n", ".", "p", "n", "g">>

IconPng == <<"i", "c", "o", "n", ".", "p", "n", "g">>

OutPng == <<"o", "u", "t", ".", "p", "n", "g">>

TransparentSuffix == <<"_", "t", "r", "a", "n", "s", "p", "a", "r", "e", "n", "t", ".", "p", "n", "g">>

\* An output_path of None (or ''), which `not output_path` takes alike.
None == <<>>

Max(S) == CHOOSE x \in S : \A y \in S : y <= x

\* str.rfind, 1-based: 0 when c does not occur.
RFind(p, c) ==
    LET S == {i \in 1..Len(p) : p[i] = c}
    IN  IF S = {} THEN 0 ELSE Max(S)

\* os.path.splitext: the extension starts at the last dot of the last path
\* component, leading dots of the component not counted.
splitext(p) ==
    LET sepIndex == RFind(p, "/")
        dotIndex == RFind(p, ".")
    IN  IF /\ dotIndex > sepIndex
           /\ \E k \in (sepIndex + 1)..(dotIndex - 1) : p[k] # "."
        THEN <<SubSeq(p, 1, dotIndex - 1), SubSeq(p, dotIndex, Len(p))>>
        ELSE <<p, <<>>>>

\* Lines 30-32: the path the result is saved to.
OutputPath(input_path, output_path) ==
    IF output_path = None
    THEN splitext(input_path)[1] \o TransparentSuffix
    ELSE output_path

InputArgs == {SidebarIcon, IconPng, OutPng}

OutputArgs == {None, OutPng, IconPng}

FsPaths == InputArgs \cup (OutputArgs \ {None})
             \cup {OutputPath(i, None) : i \in InputArgs}

\* Pixels the explored images are made of.
PaletteRGBA == {<<255, 255, 255, 255>>, <<255, 255, 255, 100>>, <<10, 20, 30, 255>>,
                <<0, 0, 0, 0>>, <<255, 255, 254, 255>>, <<254, 255, 255, 7>>}

PaletteRGB == {<<255, 255, 255>>, <<255, 254, 255>>, <<10, 20, 30>>}

Image(mode, w, h, data) == [mode |-> mode, width |-> w, height |-> h, data |-> data]

\* The 2x2 image of the documented scenario.
ExampleImage ==
    Image("RGBA", 2, 2, << <<255, 255, 255, 255>>, <<10, 20, 30, 255>>,
                           <<255, 255, 255, 100>>, <<0, 0, 0, 255>> >>)

Images ==
    {Image("RGBA", 1, 2, <<p, q>>) : p \in PaletteRGBA, q \in PaletteRGBA}
    \cup {Image("RGB", 2, 1, <<p, q>>) : p \in PaletteRGB, q \in PaletteRGB}
    \cup {ExampleImage}

\* A file left at an output path by someone else.
OldImage == Image("RGB", 1, 1, << <<1, 2, 3>> >>)

\* No file at the path, and a file that is no image.
Absent == Image("absent", 0, 0, <<>>)

Garbage == Image("garbage", 0, 0, <<>>)

IsImage(content) == content.mode \in {"RGB", "RGBA"}

\* Faulty variant: the existence test is gone.
exists_unchecked(path) == TRUE

\* Line 11: os.path.exists(input_path).
exists(path) == fs[path] # Absent

\* Line 16: .convert("RGBA") gives every pixel an alpha channel, 255 where
\* the image had none.
convert_RGBA(img) ==
    IF img.mode = "RGBA"
    THEN img
    ELSE [img EXCEPT !.mode = "RGBA",
                     !.data = [k \in 1..Len(img.data) |->
                                 <<img.data[k][1], img.data[k][2], img.data[k][3], 255>>]]

\* Faulty variant: only red and green are compared with 255.
new_pixel_ignores_blue(item) ==
    IF item[1] = 255 /\ item[2] = 255
    THEN <<255, 255, 255, 0>>
    ELSE item

\* Faulty variant: a white pixel gets its alpha inverted instead of cleared.
new_pixel_inverts_alpha(item) ==
    IF item[1] = 255 /\ item[2] = 255 /\ item[3] = 255
    THEN <<255, 255, 255, 255 - item[4]>>
    ELSE item

\* Lines 22-25: the pixel appended to new_data for item.
new_pixel(item) ==
    IF item[1] = 255 /\ item[2] = 255 /\ item[3] = 255
    THEN <<255, 255, 255, 0>>
    ELSE item

\* Lines 19-25: new_data, in the order of datas.
new_data(datas) == [k \in 1..Len(datas) |-> new_pixel(datas[k])]

Msg(kind, path) == [kind |-> kind, path |-> path]

\* Lines 9-35: one call of white_to_transparent.
white_to_transparent(input_path, output_path) ==
    /\ calls' = calls + 1
    /\ call' = [input_path |-> input_path, output_path |-> output_path]
    /\ IF ~exists(input_path)
       THEN \* lines 11-13
            /\ console' = Append(console, Msg("not_found", input_path))
            /\ exc' = "none"
            /\ UNCHANGED fs
       ELSE IF ~IsImage(fs[input_path])
       THEN \* lines 15-16: Image.open raises
            /\ console' = Append(console, Msg("processing", input_path))
            /\ exc' = IF fs[input_path] = Absent
                      THEN "FileNotFoundError" ELSE "UnidentifiedImageError"
            /\ UNCHANGED fs
       ELSE \* lines 15-35
            LET img == convert_RGBA(fs[input_path])
                out == OutputPath(input_path, output_path)
            IN  /\ fs' = [fs EXCEPT ![out] = [img EXCEPT !.data = new_data(img.data)]]
                /\ console' = console \o <<Msg("processing", input_path),
                                           Msg("saved", out)>>
                /\ exc' = "none"

ConvInit ==
    /\ ppc = "import"
    /\ pil \in BOOLEAN
    /\ defined = FALSE
    /\ \E side \in {Absent, Garbage, ExampleImage},
          icon \in {Absent, Garbage} \cup Images,
          old \in {Absent, OldImage} :
         fs = [p \in FsPaths |->
                 IF p = SidebarIcon THEN side
                 ELSE IF p = IconPng THEN icon
                 ELSE old]
    /\ console = <<>>
    /\ exc = "none"
    /\ exit = "running"
    /\ calls = 0
    /\ call = [input_path |-> None, output_path |-> None]

\* The converter before test.py is run.
ConverterNotRun ==
    /\ ppc = "import"
    /\ pil = TRUE
    /\ defined = FALSE
    /\ fs = [p \in FsPaths |-> Absent]
    /\ console = <<>>
    /\ exc = "none"
    /\ exit = "running"
    /\ calls = 0
    /\ call = [input_path |-> None, output_path |-> None]

\* Lines 4-7: the import, and the message when it fails.
module_import ==
    /\ ppc = "import"
    /\ IF pil
       THEN /\ ppc' = "else"
            /\ UNCHANGED console
       ELSE /\ ppc' = "call"
            /\ console' = Append(console, Msg("missing_pillow", None))
    /\ UNCHANGED <<pil, defined, fs, exc, exit, calls, call>>
    /\ UNCHANGED fvars

\* Lines 8-41: the else branch binds white_to_transparent and prints the banner.
module_else ==
    /\ ppc = "else"
    /\ defined' = TRUE
    /\ console' = Append(console, Msg("banner", None))
    /\ ppc' = "call"
    /\ UNCHANGED <<pil, fs, exc, exit, calls, call>>
    /\ UNCHANGED fvars

\* Line 43, outside the try statement: white_to_transparent('sidebar-icon.png').
\* An unbound name raises NameError; an exception nobody catches ends the
\* script with a traceback and exit status 1.
module_call ==
    /\ ppc = "call"
    /\ IF defined
       THEN white_to_transparent(SidebarIcon, None)
       ELSE /\ exc' = "NameError"
            /\ UNCHANGED <<fs, console, calls, call>>
    /\ ppc' = IF exc' = "none" THEN "ready" ELSE "crashed"
    /\ exit' = IF exc' = "none" THEN "0" ELSE "1"
    /\ UNCHANGED <<pil, defined>>
    /\ UNCHANGED fvars

\* How many more calls a caller makes once the module body has run.
MaxCalls == 2

caller_call(input_path, output_path) ==
    /\ ppc = "ready"
    /\ calls <= MaxCalls
    /\ white_to_transparent(input_path, output_path)
    /\ UNCHANGED <<ppc, pil, defined, exit>>
    /\ UNCHANGED fvars

ConvNext ==
    \/ module_import
    \/ module_else
    \/ module_call
    \/ \E i \in InputArgs, o \in OutputArgs : caller_call(i, o)

----------------------------------------------------------------------------
(* Specifications *)

Init == FetchInit /\ ConverterNotRun

Spec == Init /\ [][FetchNext]_vars

\* The interpreter schedules every thread that can run: main and each
\* download take their next step whenever one stays possible.
Fairness ==
    /\ WF_vars(main_start)
    /\ WF_vars(main_submit)
    /\ WF_vars(main_finish)
    /\ \A f \in Names :
         /\ WF_vars(download_file_start(f))
         /\ WF_vars(download_file_urlopen(f))
         /\ WF_vars(download_file_open(f))
         /\ WF_vars(download_file_read(f))
         /\ WF_vars(download_file_write(f))

FairSpec == Spec /\ Fairness

ConvSpecInit == ConvInit /\ FetcherNotRun

ConvSpec == ConvSpecInit /\ [][ConvNext]_vars

----------------------------------------------------------------------------
(* Properties of the fetcher *)

RECURSIVE StartsUpTo(_)
StartsUpTo(n) == IF n = 0 THEN 0 ELSE starts[Batch[n]] + StartsUpTo(n - 1)

\* Number of download_file calls started so far.
TotalStarts == StartsUpTo(Len(Batch))

NoDuplicates(s) == \A i, j \in 1..Len(s) : s[i] = s[j] => i = j

Hangs(f) == fate[f] \in {"urlopen_hang", "read_hang"}

\* C1: download_file is started at most once per entry at any time, and when
\* the final message is printed every entry has been started exactly once and
\* has returned True or False.
C1_Completeness ==
    /\ \A f \in Names : starts[f] <= 1
    /\ pc = "done" =>
         \A f \in Names : /\ starts[f] = 1
                          /\ st[f] = "returned"
                          /\ outcome[f] \in {"True", "False"}

C1_Witness ==
    /\ pc = "done"
    /\ \E f, g \in Names : outcome[f] = "False" /\ outcome[g] = "True"

\* C2: a download that the environment lets succeed is never spoilt by the
\* failure of another one: once it has returned it has returned True with its
\* body on disk, at the end of the run it has returned, and no failure ever
\* leaves the task it happened in (it is recorded there, main never raises).
C2_Isolation ==
    /\ \A g \in Names :
         fate[g] = "ok" =>
           /\ st[g] = "returned" =>
                outcome[g] = "True" /\ disk[g] = "full" /\ error[g] = "none"
           /\ pc = "done" => st[g] = "returned"
    /\ \A f \in Names : outcome[f] = "False" => error[f] # "none" /\ st[f] = "returned"
    /\ ret # "raised"

C2_Witness ==
    /\ pc = "done"
    /\ \E f1, f2, f3, g \in Names :
         /\ error[f1] = "urlopen" /\ error[f2] = "read" /\ error[f3] = "write"
         /\ fate[g] = "ok" /\ outcome[g] = "True" /\ disk[g] = "full"

\* C3: at most MAX_WORKERS downloads are in progress (hung ones included),
\* and every entry that has not been started is still to be submitted or
\* waits in the queue.
C3_BoundedPool ==
    /\ Cardinality(InProgress) <= MAX_WORKERS
    /\ \A i \in 1..Len(Batch) :
         st[Batch[i]] = "pending" => (i > submitted \/ Batch[i] \in Range(queue))

C3_Witness ==
    /\ Cardinality(InProgress) = MAX_WORKERS
    /\ \E f \in Names : st[f] = "hung"
    /\ \E g \in Names : st[g] \in {"started", "responded", "opened", "read"}
    /\ queue # <<>>

\* C4 as stated: every run of main() eventually prints the final message.
C4_Original == <>(pc = "done")

\* C4, amended: when no download hangs, the run eventually prints the final
\* message and main returns None, however many downloads failed.
C4_Terminates ==
    (\A f \in Names : ~Hangs(f)) => <>(pc = "done" /\ ret = "None")

\* A run in which every download failed has completed.
C4_Witness ==
    /\ pc = "done"
    /\ ret = "None"
    /\ \A f \in Names : outcome[f] = "False"

\* C8 as stated: the list has 35 entries.
C8_Original ==
    /\ Len(FILES) = 35
    /\ NoDuplicates(FILES)
    /\ pc = "done" => TotalStarts = Len(Batch)

\* C8, amended: FILES holds 36 filenames, no two equal; a completed run has
\* made one download attempt per entry it was given and has written no file
\* under another name.
C8_Size ==
    /\ Len(FILES) = 36
    /\ NoDuplicates(FILES)
    /\ pc = "done" =>
         /\ TotalStarts = Len(Batch)
         /\ Cardinality({f \in Names : disk[f] # disk0[f]}) <= Len(Batch)

C8_Witness ==
    /\ pc = "done"
    /\ TotalStarts = Len(Batch)
    /\ \A f \in Names : disk[f] = "full"

\* C10: the local file is as main() found it until the request has returned
\* a response; a download that failed in urlopen (or in open) left it so; a
\* file left empty or partial belongs to a download that failed while
\* reading or writing and returned False; True is returned only with the
\* whole body on disk.
C10_FileOnFailure ==
    \A f \in Names :
      /\ st[f] \in {"pending", "started", "responded"} => disk[f] = disk0[f]
      /\ st[f] = "returned" =>
           /\ error[f] \in {"urlopen", "open"} =>
                disk[f] = disk0[f] /\ outcome[f] = "False"
           /\ disk[f] \in {"empty", "partial"} =>
                outcome[f] = "False" /\ error[f] \in {"read", "write"}
           /\ outcome[f] = "True" => disk[f] = "full"

C10_Witness ==
    \E f, g, h \in Names :
      /\ st[f] = "returned" /\ error[f] = "urlopen" /\ disk0[f] = "old" /\ disk[f] = "old"
      /\ st[g] = "returned" /\ error[g] = "read" /\ disk[g] = "empty"
      /\ st[h] = "returned" /\ error[h] = "write" /\ disk[h] = "partial"

----------------------------------------------------------------------------
(* Properties of the converter *)

Last(s) == s[Len(s)]

\* The step is a call of white_to_transparent whose input decodes.
Converts == calls' = calls + 1 /\ IsImage(fs[call'.input_path])

\* The file the latest call saved.
Output == fs[OutputPath(call.input_path, call.output_path)]

\* C5: the saved grid has the size and pixel order of the input; a pixel
\* whose input is (255,255,255) whatever its alpha is (255,255,255,0), any
\* other pixel is the input pixel, with alpha 255 where the input had none.
C5_PixelInvariant ==
    [][Converts =>
         LET src == fs[call'.input_path]
             out == Output'
         IN  /\ out.mode = "RGBA"
             /\ out.width = src.width /\ out.height = src.height
             /\ Len(out.data) = Len(src.data)
             /\ \A k \in 1..Len(src.data) :
                  LET p == src.data[k]
                      alpha == IF src.mode = "RGB" THEN 255 ELSE p[4]
                  IN  out.data[k] = IF <<p[1], p[2], p[3]>> = <<255, 255, 255>>
                                    THEN <<255, 255, 255, 0>>
                                    ELSE <<p[1], p[2], p[3], alpha>>]_vars

\* The documented 2x2 scenario has been converted.
C5_Witness ==
    /\ calls >= 1
    /\ call.input_path = SidebarIcon
    /\ fs[SidebarIcon] = ExampleImage
    /\ Output = Image("RGBA", 2, 2, << <<255, 255, 255, 0>>, <<10, 20, 30, 255>>,
                                       <<255, 255, 255, 0>>, <<0, 0, 0, 255>> >>)

\* C6: a call whose input_path does not exist prints the not-found message
\* and nothing else, leaves every file as it was (the explicit and the default
\* output path included) and raises nothing.
C6_MissingInput ==
    [][(calls' = calls + 1 /\ fs[call'.input_path] = Absent) =>
         /\ fs' = fs
         /\ console' = Append(console, Msg("not_found", call'.input_path))
         /\ exc' = "none"]_vars

C6_Witness ==
    /\ calls >= 2
    /\ fs[call.input_path] = Absent
    /\ call.output_path = OutPng
    /\ fs[OutPng] = Absent
    /\ Output = Absent
    /\ Last(console) = Msg("not_found", call.input_path)
    /\ exc = "none"

\* C7: without PIL the script prints the instruction and does nothing else:
\* no call is made, nothing is raised, the exit status is not 1.
C7_Inert ==
    ~pil =>
      /\ exc = "none"
      /\ exit # "1"
      /\ calls = 0
      /\ ppc # "import" => console = <<Msg("missing_pillow", None)>>

\* C9: the grid a call saves is a fixed point of the transform, and a call
\* that repeats the previous, successful call's arguments leaves the output
\* file as the previous call left it.
C9_Idempotent ==
    [][Converts =>
         /\ new_data(Output'.data) = Output'.data
         /\ (/\ calls >= 1
             /\ call' = call
             /\ Last(console).kind = "saved") => Output' = Output]_vars

C9_Witness ==
    /\ calls >= 2
    /\ Len(console) >= 4
    /\ LET n == Len(console)
           i == call.input_path
           o == OutputPath(call.input_path, call.output_path)
       IN  /\ SubSeq(console, n - 3, n) =
                <<Msg("processing", i), Msg("saved", o),
                  Msg("processing", i), Msg("saved", o)>>
           /\ \E k \in 1..Len(fs[o].data) : fs[o].data[k] = <<255, 255, 255, 0>>

====
